---- MODULE Spec2Model ----
(***************************************************************************)
(* The MHTML converter of src/mhtml_to_html.py: decomposition of the       *)
(* archive into parts, materialisation of the assets under collision-free  *)
(* names, the replacement map, and the rewriting of the document and of    *)
(* the stylesheets.                                                        *)
(*                                                                         *)
(* Text is a sequence of one-character strings, so that str.replace and    *)
(* the regular expressions act on characters as they do in the program.    *)
(* File contents are sequences of bytes: an ASCII byte is written as its   *)
(* character, any other byte as "xHH".                                     *)
(***************************************************************************)
EXTENDS Naturals, Sequences, FiniteSets

\* ------------------------------------------------------------------ text

\* s[i..j] occurs in t at position i.
HasAt(t, i, s) ==
    /\ i >= 1
    /\ i + Len(s) - 1 <= Len(t)
    /\ SubSeq(t, i, i + Len(s) - 1) = s

\* k in text
Contains(t, s) == \E i \in 1..(Len(t) + 1) : HasAt(t, i, s)

StartsWith(t, s) == HasAt(t, 1, s)

Drop(t, n) == SubSeq(t, n + 1, Len(t))

\* str.find(c, from): the first position >= from where one of the characters
\* of cs stands, or Len(t) + 1 when there is none.
RECURSIVE FindAny(_, _, _)
FindAny(t, from, cs) ==
    IF from > Len(t) THEN Len(t) + 1
    ELSE IF t[from] \in cs THEN from
    ELSE FindAny(t, from + 1, cs)

\* str.rfind(c): the last position of c in t, or 0.
RECURSIVE RFind(_, _, _)
RFind(t, c, i) ==
    IF i = 0 THEN 0
    ELSE IF t[i] = c THEN i
    ELSE RFind(t, c, i - 1)

\* str.replace(k, v) from position i on: the leftmost occurrences of k, none
\* overlapping, each replaced by v; the text put in place is not scanned again.
RECURSIVE ReplaceFrom(_, _, _, _)
ReplaceFrom(t, i, k, v) ==
    IF i > Len(t) THEN <<>>
    ELSE IF HasAt(t, i, k) THEN v \o ReplaceFrom(t, i + Len(k), k, v)
    ELSE <<t[i]>> \o ReplaceFrom(t, i + 1, k, v)

StrReplace(t, k, v) == ReplaceFrom(t, 1, k, v)

Lower == {"a","b","c","d","e","f","g","h","i","j","k","l","m",
          "n","o","p","q","r","s","t","u","v","w","x","y","z"}
Upper == {"A","B","C","D","E","F","G","H","I","J","K","L","M",
          "N","O","P","Q","R","S","T","U","V","W","X","Y","Z"}
Digit == {"0","1","2","3","4","5","6","7","8","9"}
DigitChar == <<"0","1","2","3","4","5","6","7","8","9">>

\* str(i) of the f-string in pick_filename.
RECURSIVE IntStr(_)
IntStr(i) ==
    IF i < 10 THEN <<DigitChar[i + 1]>>
    ELSE IntStr(i \div 10) \o <<DigitChar[(i % 10) + 1]>>

\* ----------------------------------------------------------- constants

ORIGIN == <<"h","t","t","p","s",":","/","/","d","a","t","a",".","s","e","a","t","t","l","e",".","g","o","v">>

\* The resource directory as seen from the output document's directory:
\* os.path.relpath(os.path.join(assets_dir, filename), dirname(out_html_path))
\* for the documented usage "portal.html assets".
AssetsRel == <<"a","s","s","e","t","s","/">>


\* ------------------------------------------------------------ safe_name

SafeChars == Lower \cup Upper \cup Digit \cup {".", "_", "-"}

\* re.sub(r"[^A-Za-z0-9._-]", "_", name)
MapUnsafe(name) == [i \in 1..Len(name) |-> IF name[i] \in SafeChars THEN name[i] ELSE "_"]

\* re.sub(r"_+", "_", name)
RECURSIVE Collapse(_)
Collapse(name) ==
    IF Len(name) <= 1 THEN name
    ELSE IF name[1] = "_" /\ name[2] = "_" THEN Collapse(Tail(name))
    ELSE <<name[1]>> \o Collapse(Tail(name))

\* str.strip(cs)
RECURSIVE LStrip(_, _)
LStrip(s, cs) == IF s # <<>> /\ s[1] \in cs THEN LStrip(Tail(s), cs) ELSE s

RECURSIVE RStrip(_, _)
RStrip(s, cs) ==
    IF s # <<>> /\ s[Len(s)] \in cs THEN RStrip(SubSeq(s, 1, Len(s) - 1), cs) ELSE s

Strip(s, cs) == RStrip(LStrip(s, cs), cs)

\* name or "file"
OrFile(name) == IF name = <<>> THEN <<"f","i","l","e">> ELSE name

safe_name(name) == OrFile(Strip(Collapse(MapUnsafe(name)), {".", "_"}))

\* --------------------------------------------------------- ext_for_mime

\* The table `known` of ext_for_mime.
KnownExt ==
    [ c \in {"text/css", "application/javascript", "text/javascript", "image/png",
             "image/jpeg", "image/jpg", "image/gif", "image/svg+xml", "font/woff2",
             "font/woff", "font/ttf", "application/font-woff2", "application/font-woff"} |->
        CASE c = "text/css" -> <<".","c","s","s">>
          [] c \in {"application/javascript", "text/javascript"} -> <<".","j","s">>
          [] c = "image/png" -> <<".","p","n","g">>
          [] c \in {"image/jpeg", "image/jpg"} -> <<".","j","p","g">>
          [] c = "image/gif" -> <<".","g","i","f">>
          [] c = "image/svg+xml" -> <<".","s","v","g">>
          [] c \in {"font/woff2", "application/font-woff2"} -> <<".","w","o","f","f","2">>
          [] c \in {"font/woff", "application/font-woff"} -> <<".","w","o","f","f">>
          [] c = "font/ttf" -> <<".","t","t","f">> ]

\* mimetypes.guess_extension(mime) or '': the standard library's table for the
\* content types of the archives below; a type it does not know gives ''.
GuessExt(mime) ==
    CASE mime = "text/html" -> <<".","h","t","m","l">>
      [] mime = "application/octet-stream" -> <<".","b","i","n">>
      [] OTHER -> <<>>

ext_for_mime(mime) ==
    IF mime \in DOMAIN KnownExt THEN KnownExt[mime] ELSE GuessExt(mime)

\* -------------------------------------------------------------- urlparse

SchemeChars == Lower \cup Upper \cup Digit \cup {"+", "-", "."}

\* urllib.parse.uses_params, for the schemes of the archives below.
UsesParams == {<<>>, <<"f","t","p">>, <<"h","t","t","p">>, <<"h","t","t","p","s">>}

\* t up to the first of the characters cs.
Before(t, cs) == SubSeq(t, 1, FindAny(t, 1, cs) - 1)

\* _splitnetloc: the authority after "//", up to the first of "/?#", and what
\* follows it.
SplitNetloc(rest, delim) ==
    IF StartsWith(rest, <<"/","/">>)
    THEN [netloc |-> SubSeq(rest, 3, delim - 1), url |-> Drop(rest, delim - 1)]
    ELSE [netloc |-> <<>>, url |-> rest]

\* _splitparams: the path without the parameters of its last segment.
SplitParams(scheme, url) ==
    IF scheme \in UsesParams
    THEN SubSeq(url, 1, FindAny(url, RFind(url, "/", Len(url)) + 1, {";"}) - 1)
    ELSE url

\* The fragment goes first, then the query, then the parameters.
UrlResult(scheme, split) ==
    [scheme |-> scheme, netloc |-> split.netloc,
     path |-> SplitParams(scheme, Before(Before(split.url, {"#"}), {"?"}))]

AfterScheme(scheme, rest) ==
    UrlResult(scheme, SplitNetloc(rest, FindAny(rest, 3, {"/", "?", "#"})))

SplitScheme(url, colon) ==
    IF /\ colon <= Len(url)
       /\ colon > 1
       /\ url[1] \in Lower \cup Upper
       /\ \A i \in 1..(colon - 1) : url[i] \in SchemeChars
    THEN AfterScheme(SubSeq(url, 1, colon - 1), Drop(url, colon))
    ELSE AfterScheme(<<>>, url)

\* urllib.parse.urlparse(url) for a url without control characters or brackets
\* and with a lower-case scheme: [scheme, netloc, path].
urlparse(url) == SplitScheme(url, FindAny(url, 1, {":"}))

\* os.path.basename(p)
basename(p) == Drop(p, RFind(p, "/", Len(p)))

\* ----------------------------------------------------------------- bytes

\* A byte that is no ASCII character is written "xHH", a character that is
\* not ASCII "U+HHHH".
InvalidByte == "xFF"

\* bytes.decode('utf-8'): the two- and three-byte sequences str.encode below
\* produces are the valid ones; any other non-ASCII byte is invalid.
RECURSIVE Utf8Valid(_)
Utf8Valid(b) ==
    IF b = <<>> THEN TRUE
    ELSE IF HasAt(b, 1, <<"xC3", "xBF">>) THEN Utf8Valid(Drop(b, 2))
    ELSE IF HasAt(b, 1, <<"xEF", "xBF", "xBD">>) THEN Utf8Valid(Drop(b, 3))
    ELSE b[1] \notin {"xFF", "xC3", "xBF", "xEF", "xBD"} /\ Utf8Valid(Tail(b))

\* bytes.decode('utf-8', errors='replace'): an invalid byte becomes U+FFFD.
RECURSIVE DecodeUtf8(_)
DecodeUtf8(b) ==
    IF b = <<>> THEN <<>>
    ELSE IF HasAt(b, 1, <<"xC3", "xBF">>) THEN <<"U+00FF">> \o DecodeUtf8(Drop(b, 2))
    ELSE IF HasAt(b, 1, <<"xEF", "xBF", "xBD">>) THEN <<"U+FFFD">> \o DecodeUtf8(Drop(b, 3))
    ELSE IF b[1] \in {"xFF", "xC3", "xBF", "xEF", "xBD"} THEN <<"U+FFFD">> \o DecodeUtf8(Tail(b))
    ELSE <<b[1]>> \o DecodeUtf8(Tail(b))

\* bytes.decode('latin-1'): one character per byte, never failing. Of the
\* bytes that are not ASCII, the archives below hold xFF alone.
Latin1Char(x) == IF x = "xFF" THEN "U+00FF" ELSE x

DecodeLatin1(b) == [i \in 1..Len(b) |-> Latin1Char(b[i])]

\* str.encode('utf-8')
RECURSIVE EncodeUtf8(_)
EncodeUtf8(s) ==
    IF s = <<>> THEN <<>>
    ELSE (CASE s[1] = "U+00FF" -> <<"xC3", "xBF">>
            [] s[1] = "U+FFFD" -> <<"xEF", "xBF", "xBD">>
            [] OTHER -> <<s[1]>>) \o EncodeUtf8(Tail(s))

\* -------------------------------------------------------- pick_filename

\* The loop taken once: an `if` in place of the `while`.
NextFreeOnce(base, ext, i, used) == base \o <<"_">> \o IntStr(i) \o ext

\* The while loop of pick_filename: the first base_i.ext, i counting up, that
\* is not in used.
RECURSIVE NextFree(_, _, _, _)
NextFree(base, ext, i, used) ==
    LET filename == base \o <<"_">> \o IntStr(i) \o ext
    IN  IF filename \in used THEN NextFree(base, ext, i + 1, used) ELSE filename

\* base = safe_name(os.path.basename(parsed.path) or safe_name(parsed.netloc))
LocBase(parsed) ==
    safe_name(IF basename(parsed.path) # <<>> THEN basename(parsed.path)
              ELSE safe_name(parsed.netloc))

\* if not base: base = 'asset'
OrAsset(base) == IF base = <<>> THEN <<"a","s","s","e","t">> ELSE base

\* if not base and cid: base = safe_name(cid.strip('<>'))
OrCid(base, cid) ==
    OrAsset(IF base = <<>> /\ cid # <<>> THEN safe_name(Strip(cid, {"<", ">"})) ELSE base)

\* The base name pick_filename derives from Content-Location and Content-ID.
BaseName(part) ==
    OrCid(IF part.loc # <<>> THEN LocBase(urlparse(part.loc)) ELSE <<>>, part.cid)

\* filename = base + ext, and the while loop when it is taken.
PickFrom(base, ext, used) ==
    IF (base \o ext) \in used THEN NextFree(base, ext, 1, used) ELSE base \o ext

pick_filename(part, used) == PickFrom(BaseName(part), ext_for_mime(part.ctype), used)

\* --------------------------------------------------- build_replacements

\* A dict that keeps the first value of a key.
DictPutFirst(d, k, v) ==
    [order |-> IF k \in DOMAIN d.map THEN d.order ELSE Append(d.order, k),
     map   |-> [x \in (DOMAIN d.map) \cup {k} |-> IF x \in DOMAIN d.map THEN d.map[x] ELSE v]]

\* repl[k] = v on a dict kept as [order, map]: a new key goes last, a key
\* already there keeps its place and takes the new value.
DictPut(d, k, v) ==
    [order |-> IF k \in DOMAIN d.map THEN d.order ELSE Append(d.order, k),
     map   |-> [x \in (DOMAIN d.map) \cup {k} |-> IF x = k THEN v ELSE d.map[x]]]

EmptyDict == [order |-> <<>>, map |-> [x \in {} |-> <<>>]]

NetlocOfOrigin == urlparse(ORIGIN).netloc

\* if cid: repl[f"cid:{cid}"] = local
PutCid(d, info) ==
    IF info.cid # <<>> THEN DictPut(d, <<"c","i","d",":">> \o info.cid, info.local_path) ELSE d

\* The path-only key of a location under the origin.
PutPath(d, info, parsed) ==
    IF /\ parsed.scheme \in {<<"h","t","t","p">>, <<"h","t","t","p","s">>}
       /\ parsed.netloc = NetlocOfOrigin
       /\ parsed.path # <<>>
    THEN DictPut(d, parsed.path, info.local_path)
    ELSE d

\* if loc: repl[loc] = local, and the path-only key
PutLoc(d, info) ==
    IF info.location # <<>>
    THEN PutPath(DictPut(d, info.location, info.local_path), info, urlparse(info.location))
    ELSE d

\* The body of the for loop of build_replacements for one asset.
RegisterAsset(d, info) == PutLoc(PutCid(d, info), info)

RECURSIVE RegisterAll(_, _)
RegisterAll(d, infos) ==
    IF infos = <<>> THEN d ELSE RegisterAll(RegisterAsset(d, Head(infos)), Tail(infos))

\* sorted(..., key=len, reverse=True) is stable: k goes after every key at
\* least as long as it.
RECURSIVE InsertByLen(_, _)
InsertByLen(sorted, k) ==
    IF sorted = <<>> THEN <<k>>
    ELSE IF Len(Head(sorted)) >= Len(k) THEN <<Head(sorted)>> \o InsertByLen(Tail(sorted), k)
    ELSE <<k>> \o sorted

RECURSIVE SortByLenDesc(_)
SortByLenDesc(ks) ==
    IF ks = <<>> THEN <<>>
    ELSE InsertByLen(SortByLenDesc(SubSeq(ks, 1, Len(ks) - 1)), ks[Len(ks)])

Sorted(d) == [keys |-> SortByLenDesc(d.order), repl |-> d.map]

build_replacements(parts_info) == Sorted(RegisterAll(EmptyDict, parts_info))

\* for k in keys: text = text.replace(k, repl[k])
RECURSIVE ReplaceKeys(_, _, _)
ReplaceKeys(text, keys, repl) ==
    IF keys = <<>> THEN text
    ELSE ReplaceKeys(StrReplace(text, Head(keys), repl[Head(keys)]), Tail(keys), repl)

\* --------------------------------- rewrite_root_relative_urls_in_html

WordChars == Lower \cup Upper \cup Digit \cup {"_"}
Quotes == {"'", "\""}
AttrNames == {<<"h","r","e","f">>, <<"s","r","c">>, <<"a","c","t","i","o","n">>}
UrlOpen == <<"u","r","l","(">>
Quot == <<"&","q","u","o","t",";">>

NoMatch == [end |-> 0]

\* A match at position i of r"\b(href|src|action)=(['\"])\/(?!\/)([^'\"]*)\2":
\* its last position and its groups 1, 2 and 3, or NoMatch. The run [^'\"]* is
\* greedy and ends at the first quote; a shorter run is followed by a character
\* that is no quote, so backtracking finds nothing more.
AttrMatch(t, i) ==
    LET names == {n \in AttrNames : HasAt(t, i, n)}
        n == CHOOSE x \in names : TRUE
        q == i + Len(n) + 1
        e == FindAny(t, q + 2, Quotes)
    IN  IF /\ names # {}
           /\ (i = 1 \/ t[i - 1] \notin WordChars)
           /\ q + 1 <= Len(t)
           /\ t[q - 1] = "="
           /\ t[q] \in Quotes
           /\ t[q + 1] = "/"
           /\ ~(q + 2 <= Len(t) /\ t[q + 2] = "/")
           /\ e <= Len(t)
           /\ t[e] = t[q]
        THEN [end |-> e, attr |-> n, quote |-> <<t[q]>>, path |-> SubSeq(t, q + 2, e - 1),
              all |-> SubSeq(t, i, e)]
        ELSE NoMatch

\* repl_attr(m)
repl_attr(m, origin) ==
    IF StartsWith(m.path, <<"/">>) /\ ~StartsWith(m.path, <<"/","/">>)
    THEN m.attr \o <<"=">> \o m.quote \o origin \o m.path \o m.quote
    ELSE m.all

\* re.sub of the attribute pattern, from position i on.
RECURSIVE AttrSub(_, _, _)
AttrSub(t, i, origin) ==
    IF i > Len(t) THEN <<>>
    ELSE LET m == AttrMatch(t, i)
         IN  IF m.end # 0 THEN repl_attr(m, origin) \o AttrSub(t, m.end + 1, origin)
             ELSE <<t[i]>> \o AttrSub(t, i + 1, origin)

\* A match at position i of r"url\((['\"]?)(\/[^'\")]+)(['\"]?)\)".
CssUrlMatch(t, i) ==
    LET p == i + Len(UrlOpen)
        hasOpen == p <= Len(t) /\ t[p] \in Quotes
        s == IF hasOpen THEN p + 1 ELSE p
        e == FindAny(t, s + 1, Quotes \cup {")"})
        hasClose == e <= Len(t) /\ t[e] \in Quotes
        c == IF hasClose THEN e + 1 ELSE e
    IN  IF /\ HasAt(t, i, UrlOpen)
           /\ s <= Len(t)
           /\ t[s] = "/"
           /\ e > s + 1
           /\ c <= Len(t)
           /\ t[c] = ")"
        THEN [end |-> c, openp |-> IF hasOpen THEN <<t[p]>> ELSE <<>>,
              path |-> SubSeq(t, s, e - 1), closep |-> IF hasClose THEN <<t[e]>> ELSE <<>>,
              all |-> SubSeq(t, i, c)]
        ELSE NoMatch

\* repl_css(m), the same function in both rewriters.
repl_css(m, origin) ==
    IF StartsWith(m.path, <<"/">>) /\ ~StartsWith(m.path, <<"/","/">>)
    THEN UrlOpen \o m.openp \o origin \o m.path \o m.closep \o <<")">>
    ELSE m.all

\* re.sub of the url(...) pattern, from position i on.
RECURSIVE CssUrlSub(_, _, _)
CssUrlSub(t, i, origin) ==
    IF i > Len(t) THEN <<>>
    ELSE LET m == CssUrlMatch(t, i)
         IN  IF m.end # 0 THEN repl_css(m, origin) \o CssUrlSub(t, m.end + 1, origin)
             ELSE <<t[i]>> \o CssUrlSub(t, i + 1, origin)

\* A match at position i of r"url\((&quot;)(\/[^&]+)(&quot;)\)".
EntityMatch(t, i) ==
    LET s == i + Len(UrlOpen) + Len(Quot)
        e == FindAny(t, s + 1, {"&"})
    IN  IF /\ HasAt(t, i, UrlOpen \o Quot)
           /\ s <= Len(t)
           /\ t[s] = "/"
           /\ e > s + 1
           /\ HasAt(t, e, Quot \o <<")">>)
        THEN [end |-> e + Len(Quot), path |-> SubSeq(t, s, e - 1)]
        ELSE NoMatch

\* The lambda of the third re.sub.
repl_entity(m, origin) == UrlOpen \o Quot \o origin \o m.path \o Quot \o <<")">>

RECURSIVE EntitySub(_, _, _)
EntitySub(t, i, origin) ==
    IF i > Len(t) THEN <<>>
    ELSE LET m == EntityMatch(t, i)
         IN  IF m.end # 0 THEN repl_entity(m, origin) \o EntitySub(t, m.end + 1, origin)
             ELSE <<t[i]>> \o EntitySub(t, i + 1, origin)

rewrite_root_relative_urls_in_html(html, origin) ==
    EntitySub(CssUrlSub(AttrSub(html, 1, origin), 1, origin), 1, origin)

rewrite_urls_in_css(css_text, keys, repl_map, origin) ==
    CssUrlSub(ReplaceKeys(css_text, keys, repl_map), 1, origin)

\* --------------------------------------------------------------- archive

\* One part of msg.walk(): its content type, Content-Location and Content-ID
\* headers (<<>> when absent), declared charset, whether it is a multipart
\* container, and its decoded payload.
Part(ctype, loc, cid, payload) ==
    [ctype |-> ctype, loc |-> loc, cid |-> cid, charset |-> "", multipart |-> FALSE,
     payload |-> payload]

\* An optional value: <<>> is None, <<v>> is v.
Some(v) == <<v>>

\* part.get_payload(decode=True): None for a multipart container.
get_payload(part) == IF part.multipart THEN <<>> ELSE Some(part.payload)

KnownCharsets == {"utf-8"}

\* payload.decode(charset, errors='replace'), with utf-8 when the part declares
\* no charset and when the charset is unknown (LookupError).
DecodeHtml(part) ==
    LET charset == IF part.charset = "" THEN "utf-8" ELSE part.charset
    IN  IF charset \in KnownCharsets THEN DecodeUtf8(part.payload)
        ELSE DecodeUtf8(part.payload)

\* The file of the resource directory behind an asset's local path.
FileOf(local_path) == Drop(local_path, Len(AssetsRel))

\* ----------------------------------------------------------- the inputs

\* An archive holds at most MaxParts parts; an archive of the rewriting runs
\* holds a document, if any, and at most MaxRefs further parts.
MaxParts == 3
MaxRefs == 3

Png == "image/png"
Css == "text/css"
Html == "text/html"

OriginHttp == <<"h","t","t","p",":","/","/","d","a","t","a",".","s","e","a","t","t","l","e",".","g","o","v">>
OriginFtp == <<"f","t","p",":","/","/","d","a","t","a",".","s","e","a","t","t","l","e",".","g","o","v">>
Cdn == <<"h","t","t","p","s",":","/","/","c","d","n",".","i","o">>
PathDG == <<"/","d","/","g">>
PathG == <<"/","g">>
PathF == <<"/","f">>
SeattleDG == ORIGIN \o PathDG
SeattleG == ORIGIN \o PathG
Img1 == <<"<","i","m","g","1",">">>
UrlOf(ref) == UrlOpen \o ref \o <<")">>

\* An image below a directory of the origin, and the same path over http.
ImgG == Part(Png, SeattleDG, <<>>, <<"x">>)
ImgGHttp == Part(Png, OriginHttp \o PathDG, <<>>, <<"y">>)
\* An image at the root of the origin.
ImgRoot == Part(Png, SeattleG, <<>>, <<"z">>)
\* The origin's authority under a scheme that is not http(s).
FtpG == Part(Png, OriginFtp \o PathG, <<>>, <<"x">>)
\* Another authority; its base name is that of a suffixed name.
ImgG1 == Part(Png, Cdn \o <<"/","g","_","1">>, <<>>, <<"x">>)
\* Addressed by Content-ID only.
CidImg == Part(Png, <<>>, Img1, <<"x">>)
\* The origin itself, with an empty path, and a type of no known extension.
Bare == Part("application/x-unknown", ORIGIN, Img1, <<"x">>)
Plain == Part("text/plain", <<>>, <<>>, <<"x">>)
Container == [Part("multipart/related", <<>>, <<>>, <<>>) EXCEPT !.multipart = TRUE]

CssG == Part(Css, <<>>, <<>>, UrlOf(PathDG))
CssBad == Part(Css, <<>>, <<>>, <<InvalidByte>> \o UrlOf(PathF))

DocAttr == Part(Html, <<>>, <<>>, <<"h","r","e","f","=","\"">> \o PathF \o <<"\"">>)
\* A framed document of another site.
Frame == Part(Html, Cdn \o PathF, <<>>, <<"x">>)
DocLong == [Part(Html, <<>>, <<>>, <<"s","r","c","=","\"">> \o SeattleG \o <<"\"">>)
              EXCEPT !.charset = "x-unknown"]
DocEntity == Part(Html, <<>>, <<>>, UrlOf(Quot \o <<"/","/","c">> \o Quot))
DocUrlG == Part(Html, <<>>, <<>>, UrlOf(PathDG))
DocUrlF == Part(Html, <<>>, <<>>, UrlOf(<<"'">> \o PathF \o <<"'">>))

NamePool == {Container, Plain, DocAttr, Frame, CssG, ImgG, FtpG, ImgG1, CidImg, Bare}
Docs == {DocAttr, DocLong, DocEntity, DocUrlG, DocUrlF}
RefPool == {ImgRoot, ImgG, ImgGHttp, CssG, CssBad, Plain}

SeqsUpTo(S, n) == UNION {[1..m -> S] : m \in 0..n}

\* ------------------------------------------------------------- the state

VARIABLES
    parts,               \* list(msg.walk())
    idx,                 \* the index of the for loop over parts, from 1
    html_text,           \* None, or the decoded primary document
    assets,              \* the AssetRecords
    used_names,
    css_assets_indices,
    keys, repl,          \* build_replacements(assets)
    rewritten,           \* the document text through the passes
    css_pos,             \* the position of the for loop over css_assets_indices
    files,               \* the resource directory: file name -> bytes
    out_html,            \* None, or the output document as written
    pc,                  \* where convert stands
    original,            \* history: each resource file as first written
    skipped              \* history: the stylesheets whose rewriting raised

vars == <<parts, idx, html_text, assets, used_names, css_assets_indices, keys, repl,
          rewritten, css_pos, files, out_html, pc, original, skipped>>

NoFiles == [f \in {} |-> <<>>]

InitWith(archive) ==
    /\ parts = archive
    /\ idx = 1
    /\ html_text = <<>>
    /\ assets = <<>>
    /\ used_names = {}
    /\ css_assets_indices = <<>>
    /\ keys = <<>>
    /\ repl = NoFiles
    /\ rewritten = <<>>
    /\ css_pos = 1
    /\ files = NoFiles
    /\ out_html = <<>>
    /\ pc = "parts"
    /\ original = NoFiles
    /\ skipped = {}

Init == \E archive \in SeqsUpTo(NamePool, MaxParts) : InitWith(archive)

InitRewrite ==
    \E head \in {<<>>} \cup {<<d>> : d \in Docs}, body \in SeqsUpTo(RefPool, MaxRefs) :
        InitWith(head \o body)

Put(f, k, v) == [x \in (DOMAIN f) \cup {k} |-> IF x = k THEN v ELSE f[x]]

\* ------------------------------------------------- convert: the part loop

InLoop == pc = "parts" /\ idx <= Len(parts)

\* Every text/html part taken as the document.
IsPrimaryAny(part) == part.ctype = Html

IsPrimary(part) == part.ctype = Html /\ html_text = <<>>

IsSkipped(part) ==
    \/ part.multipart
    \/ part.ctype \in {"", "text/plain"}
    \/ get_payload(part) = <<>>

\* if ctype == 'text/html' and html_text is None: decode, continue
SelectPrimary ==
    /\ InLoop
    /\ IsPrimary(parts[idx])
    /\ html_text' = Some(DecodeHtml(parts[idx]))
    /\ idx' = idx + 1
    /\ UNCHANGED <<parts, assets, used_names, css_assets_indices, keys, repl, rewritten,
                   css_pos, files, out_html, pc, original, skipped>>

\* The three `continue` of containers, plain text and parts without payload.
SkipPart ==
    /\ InLoop
    /\ ~IsPrimary(parts[idx])
    /\ IsSkipped(parts[idx])
    /\ idx' = idx + 1
    /\ UNCHANGED <<parts, html_text, assets, used_names, css_assets_indices, keys, repl,
                   rewritten, css_pos, files, out_html, pc, original, skipped>>

\* asset_info of convert.
AssetInfo(part, filename) ==
    [content_type |-> part.ctype,
     local_path |-> AssetsRel \o filename,
     cid |-> Strip(part.cid, {"<", ">"}),
     location |-> part.loc]

\* pick_filename, the write of the payload, the AssetRecord.
Materialize ==
    /\ InLoop
    /\ ~IsPrimary(parts[idx])
    /\ ~IsSkipped(parts[idx])
    /\ \E part \in {parts[idx]}, filename \in {pick_filename(parts[idx], used_names)} :
           /\ used_names' = used_names \cup {filename}
           /\ files' = Put(files, filename, part.payload)
           /\ original' = Put(original, filename, part.payload)
           /\ assets' = Append(assets, AssetInfo(part, filename))
           /\ css_assets_indices' =
                  IF part.ctype = Css THEN Append(css_assets_indices, Len(assets) + 1)
                  ELSE css_assets_indices
    /\ idx' = idx + 1
    /\ UNCHANGED <<parts, html_text, keys, repl, rewritten, css_pos, out_html, pc, skipped>>

\* raise SystemExit('No text/html part found in MHTML file')
NoHtml ==
    /\ pc = "parts"
    /\ idx > Len(parts)
    /\ html_text = <<>>
    /\ pc' = "aborted"
    /\ UNCHANGED <<parts, idx, html_text, assets, used_names, css_assets_indices, keys, repl,
                   rewritten, css_pos, files, out_html, original, skipped>>

\* ------------------------------------------------ convert: the rewriting

\* keys, repl = build_replacements(assets); rewritten = html_text
Resolve ==
    /\ pc = "parts"
    /\ idx > Len(parts)
    /\ html_text # <<>>
    /\ \E r \in {build_replacements(assets)} : keys' = r.keys /\ repl' = r.repl
    /\ rewritten' = html_text[1]
    /\ pc' = "pass1"
    /\ UNCHANGED <<parts, idx, html_text, assets, used_names, css_assets_indices, css_pos,
                   files, out_html, original, skipped>>

\* for k in keys: rewritten = rewritten.replace(k, repl[k])
LiteralPass ==
    /\ pc = "pass1"
    /\ rewritten' = ReplaceKeys(rewritten, keys, repl)
    /\ pc' = "promote"
    /\ UNCHANGED <<parts, idx, html_text, assets, used_names, css_assets_indices, keys, repl,
                   css_pos, files, out_html, original, skipped>>

\* rewritten = rewrite_root_relative_urls_in_html(rewritten, ORIGIN)
PromotePass ==
    /\ pc = "promote"
    /\ rewritten' = rewrite_root_relative_urls_in_html(rewritten, ORIGIN)
    /\ pc' = "css"
    /\ UNCHANGED <<parts, idx, html_text, assets, used_names, css_assets_indices, keys, repl,
                   css_pos, files, out_html, original, skipped>>

InCssLoop == pc = "css" /\ css_pos <= Len(css_assets_indices)

CssFile == FileOf(assets[css_assets_indices[css_pos]].local_path)

\* raw.decode('utf-8'), and raw.decode('latin-1') on UnicodeDecodeError
DecodeCss(raw) == IF Utf8Valid(raw) THEN DecodeUtf8(raw) ELSE DecodeLatin1(raw)

\* The body of the try: read, decode, rewrite, write back.
RewriteStylesheet ==
    /\ InCssLoop
    /\ files' = [files EXCEPT ![CssFile] =
                    EncodeUtf8(rewrite_urls_in_css(DecodeCss(files[CssFile]), keys, repl, ORIGIN))]
    /\ css_pos' = css_pos + 1
    /\ UNCHANGED <<parts, idx, html_text, assets, used_names, css_assets_indices, keys, repl,
                   rewritten, out_html, pc, original, skipped>>

\* read_bytes raises, or write_text raises on opening the file: the except
\* clause passes and the file is as it was.
StylesheetUntouched ==
    /\ InCssLoop
    /\ skipped' = skipped \cup {CssFile}
    /\ css_pos' = css_pos + 1
    /\ UNCHANGED <<parts, idx, html_text, assets, used_names, css_assets_indices, keys, repl,
                   rewritten, files, out_html, pc, original>>

\* write_text opens the file for writing, which truncates it, and raises when
\* the text is written out: the except clause passes over a file left empty.
StylesheetTruncated ==
    /\ InCssLoop
    /\ files' = [files EXCEPT ![CssFile] = <<>>]
    /\ skipped' = skipped \cup {CssFile}
    /\ css_pos' = css_pos + 1
    /\ UNCHANGED <<parts, idx, html_text, assets, used_names, css_assets_indices, keys, repl,
                   rewritten, out_html, pc, original>>

\* with open(out_html_path, 'w', encoding='utf-8') as outf: outf.write(rewritten)
WriteDocument ==
    /\ pc = "css"
    /\ css_pos > Len(css_assets_indices)
    /\ out_html' = Some(rewritten)
    /\ pc' = "done"
    /\ UNCHANGED <<parts, idx, html_text, assets, used_names, css_assets_indices, keys, repl,
                   rewritten, css_pos, files, original, skipped>>

Next ==
    \/ SelectPrimary
    \/ SkipPart
    \/ Materialize
    \/ NoHtml
    \/ Resolve
    \/ LiteralPass
    \/ PromotePass
    \/ RewriteStylesheet
    \/ StylesheetUntouched
    \/ StylesheetTruncated
    \/ WriteDocument

Spec == Init /\ [][Next]_vars

SpecRewrite == InitRewrite /\ [][Next]_vars

\* ------------------------------------------------------------- the claims

LoopDone == pc # "parts" \/ idx > Len(parts)
Built == pc \in {"pass1", "promote", "css", "done"}
KeySet == {keys[i] : i \in 1..Len(keys)}
FileName(j) == FileOf(assets[j].local_path)
BaseOfAsset(info) == BaseName([loc |-> info.location, cid |-> info.cid])
ExtOfAsset(info) == ext_for_mime(info.content_type)
SameName(i, j) ==
    /\ BaseOfAsset(assets[i]) = BaseOfAsset(assets[j])
    /\ ExtOfAsset(assets[i]) = ExtOfAsset(assets[j])
Suffixed(info, n) == BaseOfAsset(info) \o <<"_">> \o IntStr(n) \o ExtOfAsset(info)
Unsuffixed(info) == BaseOfAsset(info) \o ExtOfAsset(info)
EarlierNames(j) == {FileName(i) : i \in 1..(j - 1)}

\* C1, as amended: the file names, and so the local paths, of the assets are
\* pairwise distinct and are the used names; an asset is named base.ext when
\* no earlier asset has that name, and otherwise base_n.ext for the least
\* n >= 1 whose name no earlier asset has.
C1_DistinctNames ==
    /\ \A i, j \in 1..Len(assets) : i # j => assets[i].local_path # assets[j].local_path
    /\ used_names = {FileName(j) : j \in 1..Len(assets)}
    /\ \A j \in 1..Len(assets) :
          IF Unsuffixed(assets[j]) \notin EarlierNames(j)
          THEN FileName(j) = Unsuffixed(assets[j])
          ELSE \E n \in 1..j :
                  /\ FileName(j) = Suffixed(assets[j], n)
                  /\ Suffixed(assets[j], n) \notin EarlierNames(j)
                  /\ \A m \in 1..(n - 1) : Suffixed(assets[j], m) \in EarlierNames(j)

\* C1 as stated: the first two assets of one base name and extension are
\* named base.ext and base_1.ext, whatever else the archive holds.
C1_FirstTwoAsStated ==
    \A i, j \in 1..Len(assets) :
        (/\ i < j
         /\ SameName(i, j)
         /\ \A k \in 1..(j - 1) : k # i => ~SameName(k, j))
        => /\ FileName(i) = Unsuffixed(assets[i])
           /\ FileName(j) = Suffixed(assets[j], 1)

C1_Witness ==
    \E i, j \in 1..Len(assets) :
        /\ i < j
        /\ SameName(i, j)
        /\ FileName(i) = Unsuffixed(assets[i])
        /\ FileName(j) = Suffixed(assets[j], 1)

\* C2: when the run aborts for want of a text/html part, neither the output
\* document nor any resource file has been written.
C2_AbortWritesNothing == pc = "aborted" => out_html = <<>> /\ DOMAIN files = {}

IsStrictSuffix(short, long) ==
    Len(short) < Len(long) /\ SubSeq(long, Len(long) - Len(short) + 1, Len(long)) = short

\* The text holds long, and short nowhere but inside long.
OnlyLonger(text, short, long) ==
    Contains(text, long) /\ ~Contains(StrReplace(text, long, <<" ">>), short)

\* C3: when key k2 is a strict suffix of key k1, both of one asset, and the
\* document holds k1 but k2 (and any other key) nowhere else, the text at the
\* end of Pass 1 is the document with k1 replaced by the asset's local path.
C3_LongerKeyWins ==
    pc = "promote" =>
        \A k1, k2 \in KeySet :
            (/\ IsStrictSuffix(k2, k1)
             /\ repl[k1] = repl[k2]
             /\ OnlyLonger(html_text[1], k2, k1)
             /\ \A k \in KeySet \ {k1, k2} : ~Contains(html_text[1], k))
            => rewritten = StrReplace(html_text[1], k1, repl[k1])

\* C4: Pass 1 applied to the output of Pass 1 changes nothing, and no key
\* occurs in the text after Pass 1.
C4_PassOneIdempotent ==
    pc = "promote" =>
        /\ ReplaceKeys(rewritten, keys, repl) = rewritten
        /\ \A k \in KeySet : ~Contains(rewritten, k)

NoQuote(t) == \A i \in 1..Len(t) : t[i] \notin Quotes
NoKeyIn(text) == \A k \in KeySet : ~Contains(text, k)

\* C5: a document that is one href, src or action attribute whose quoted
\* value starts with exactly one "/" and holds no key is written out with the
\* value origin + path in the same quotes; a value starting "//" is unchanged.
C5_AttrPromoted ==
    pc = "done" =>
        \A n \in AttrNames, q \in Quotes :
            LET head == n \o <<"=", q>>
                text == html_text[1]
                value == SubSeq(text, Len(head) + 1, Len(text) - 1)
            IN  (/\ StartsWith(text, head \o <<"/">>)
                 /\ Len(text) > Len(head) + 1
                 /\ text[Len(text)] = q
                 /\ NoQuote(value)
                 /\ NoKeyIn(text))
                => out_html[1] = IF StartsWith(value, <<"/","/">>) THEN text
                                 ELSE head \o ORIGIN \o value \o <<q>>

\* The ways a url(...) reference is quoted.
Wraps == {<<<<>>, <<>>>>, <<<<"'">>, <<"'">>>>, <<<<"\"">>, <<"\"">>>>, <<Quot, Quot>>}
UrlForms(ref) == {UrlOf(w[1] \o ref \o w[2]) : w \in Wraps}
AttrForms(ref) == {n \o <<"=", q>> \o ref \o <<q>> : n \in AttrNames, q \in Quotes}
Stylesheets == {FileName(css_assets_indices[i]) : i \in 1..Len(css_assets_indices)}

\* C6: a reference that is a key, and which Pass 1 therefore resolves, is not
\* promoted afterwards; a stylesheet url(k) of an origin-relative key k ends
\* as url(local path of the asset of k).
C6_ResolvedStaysLocal ==
    pc = "done" =>
        /\ \A k \in KeySet :
              html_text[1] \in UrlForms(k) \cup AttrForms(k)
              => /\ out_html[1] = ReplaceKeys(html_text[1], keys, repl)
                 /\ ~Contains(out_html[1], ORIGIN)
        /\ \A f \in Stylesheets \ skipped : \A k \in KeySet :
              (StartsWith(k, <<"/">>) /\ DecodeCss(original[f]) = UrlOf(k))
              => files[f] = EncodeUtf8(UrlOf(repl[k]))

\* C7: a stylesheet whose rewriting fails is left as it was before, the
\* others are processed and the document is written; a stylesheet that is
\* not valid UTF-8 is decoded as latin-1, rewritten and written back.
C7_FailureLeavesFile ==
    /\ \A f \in skipped : files[f] = original[f]
    /\ pc = "done" =>
          /\ out_html # <<>>
          /\ \A f \in Stylesheets \ skipped :
                files[f] = EncodeUtf8(rewrite_urls_in_css(DecodeCss(original[f]), keys, repl, ORIGIN))
          /\ \A f \in Stylesheets \ skipped :
                ~Utf8Valid(original[f])
                => files[f] = EncodeUtf8(rewrite_urls_in_css(DecodeLatin1(original[f]),
                                                            keys, repl, ORIGIN))

HtmlIdx == {i \in 1..Len(parts) : parts[i].ctype = Html}
FirstHtml == CHOOSE i \in HtmlIdx : \A j \in HtmlIdx : i <= j
IsHtmlAsset(info) == info.content_type = Html
HtmlAssets == SelectSeq(assets, IsHtmlAsset)
\* The text/html parts after the first, in archive order, among the first n
\* parts.
RECURSIVE LaterHtml(_)
LaterHtml(n) ==
    IF n = 0 THEN <<>>
    ELSE IF n \in HtmlIdx /\ n # FirstHtml THEN Append(LaterHtml(n - 1), parts[n])
    ELSE LaterHtml(n - 1)

\* C8, as amended: the first text/html part alone becomes the document; every
\* later text/html part is an asset like any other: its payload is written
\* to the resource directory, it has an AssetRecord, and its location is a
\* key of the map.
C8_LaterHtmlIsAsset ==
    /\ html_text # <<>> => html_text = Some(DecodeHtml(parts[FirstHtml]))
    /\ html_text # <<>> <=> \E i \in HtmlIdx : pc # "parts" \/ i < idx
    /\ LoopDone =>
          /\ Len(HtmlAssets) = Len(LaterHtml(Len(parts)))
          /\ \A n \in 1..Len(HtmlAssets) :
                /\ HtmlAssets[n].location = LaterHtml(Len(parts))[n].loc
                /\ original[FileOf(HtmlAssets[n].local_path)] = LaterHtml(Len(parts))[n].payload
                /\ (Built /\ HtmlAssets[n].location # <<>>) => HtmlAssets[n].location \in KeySet

\* C8 as stated: a later text/html part is not written, has no AssetRecord
\* and gives the map no key.
C8_LaterHtmlIgnored ==
    LoopDone =>
        /\ HtmlAssets = <<>>
        /\ Cardinality(DOMAIN files) =
              Cardinality({i \in 1..Len(parts) : ~IsSkipped(parts[i]) /\ parts[i].ctype # Html})

C8_Witness ==
    /\ pc = "done"
    /\ \E n \in 1..Len(HtmlAssets) : HtmlAssets[n].location \in KeySet

\* The keys one asset registers.
CidKeys(info) == IF info.cid # <<>> THEN {<<"c","i","d",":">> \o info.cid} ELSE {}
LocKeys(info) == IF info.location # <<>> THEN {info.location} ELSE {}
UnderOrigin(loc) == loc # <<>> /\ urlparse(loc).netloc = NetlocOfOrigin
PathKeys(info) ==
    IF /\ UnderOrigin(info.location)
       /\ urlparse(info.location).scheme \in {<<"h","t","t","p">>, <<"h","t","t","p","s">>}
       /\ urlparse(info.location).path # <<>>
    THEN {urlparse(info.location).path}
    ELSE {}
Registered(info) == CidKeys(info) \cup LocKeys(info) \cup PathKeys(info)
LastOf(k) ==
    CHOOSE j \in 1..Len(assets) :
        /\ k \in Registered(assets[j])
        /\ \A i \in 1..Len(assets) : k \in Registered(assets[i]) => i <= j

\* C9, as amended: no key is empty, no key occurs twice, the keys are in
\* non-increasing length; the keys are exactly "cid:" + identifier, the
\* location, and the path of every location whose scheme is http or https,
\* whose authority is the origin's and whose path is not empty; a key maps to
\* the local path of the last asset that registers it.
C9_ReplacementMap ==
    Built =>
        /\ \A i \in 1..Len(keys) : keys[i] # <<>>
        /\ \A i, j \in 1..Len(keys) : i < j => keys[i] # keys[j] /\ Len(keys[i]) >= Len(keys[j])
        /\ KeySet = DOMAIN repl
        /\ KeySet = UNION {Registered(assets[j]) : j \in 1..Len(assets)}
        /\ \A k \in KeySet : repl[k] = assets[LastOf(k)].local_path

\* C9 as stated: the path of every location whose authority is the origin's
\* is a key.
C9_PathKeyForEveryOriginLocation ==
    Built =>
        \A j \in 1..Len(assets) :
            UnderOrigin(assets[j].location) => urlparse(assets[j].location).path \in KeySet

C9_Witness ==
    /\ Built
    /\ \E i, j \in 1..Len(assets) :
          /\ i < j
          /\ PathKeys(assets[i]) # {}
          /\ PathKeys(assets[i]) = PathKeys(assets[j])
          /\ assets[i].local_path # assets[j].local_path

\* C10: a document that is one url(...) reference holding no key, its path
\* bare, in quotes or in &quot; entities, is written out with origin + path
\* when the path starts with exactly one "/", and unchanged when it starts "//".
C10_UrlPromoted ==
    pc = "done" =>
        \A w \in Wraps :
            LET text == html_text[1]
                head == UrlOpen \o w[1]
                tail == w[2] \o <<")">>
                path == SubSeq(text, Len(head) + 1, Len(text) - Len(tail))
            IN  (/\ StartsWith(text, head \o <<"/">>)
                 /\ Len(text) > Len(head) + Len(tail) + 1
                 /\ HasAt(text, Len(text) - Len(tail) + 1, tail)
                 /\ \A i \in 1..Len(path) : path[i] \notin Quotes \cup {")", "&"}
                 /\ NoKeyIn(text))
                => out_html[1] = IF StartsWith(path, <<"/","/">>) THEN text
                                 ELSE head \o ORIGIN \o path \o tail

====
